---- MODULE Spec2Model ----
(***************************************************************************)
(* Model of rest/design/dsl/response.go (the Response DSL: Response,       *)
(* Status, executeResponseDSL) and of the publicizer code generator that   *)
(* shares the file (RecursivePublicizer, Publicizer and their templates).  *)
(*                                                                         *)
(* Response expressions live in a heap (a sequence indexed by reference),  *)
(* so that aliasing between a registry entry and its duplicate can be      *)
(* expressed.  The registry entries occupy the first references.          *)
(***************************************************************************)
EXTENDS Integers, Sequences, FiniteSets, TLC

VARIABLES heap, responses, errors, ncalls, last,
          schema, stack, out, pcalls, pc

vars == <<heap, responses, errors, ncalls, last, schema, stack, out, pcalls, pc>>
dslVars == <<heap, responses, errors, ncalls, last>>
pubVars == <<schema, stack, out, pcalls, pc>>

\* Number of DSL calls evaluated in one run of the design.
MaxCalls == 2

\* Deepest nesting the generator is followed to.
MaxDepth == 6

----------------------------------------------------------------------------
\* Diagnostics reported through eval.ReportError / eval.IncompatibleDSL.
ErrDefinedTwice == "response is defined twice"
ErrInvalidParam == "invalid response template parameter, must be a string"
ErrNoTemplate == "no response template named"
ErrIncompatible == "invalid use of DSL in this context"

\* The spec's InvalidTemplateArgument covers both template-parameter messages.
InvalidTemplateArgument == {ErrInvalidParam, ErrNoTemplate}

\* Evaluation contexts (eval.Current()): the two owning scopes, and any other
\* expression (here the API root) in which Response may be called by mistake.
Scopes == {"action", "resource"}
Contexts == Scopes \cup {"api"}

\* ResourceExpr.MediaType of the one resource; the action belongs to it.
ResourceMediaType == "application/vnd.resource"

ScopeDefaultMediaType(def) == ResourceMediaType

\* Response names used by the design.
Names == {"OK", "NotFound", "Custom"}

\* Data types usable as body-type token: the media type BottleMedia and the
\* primitive String.
IsMediaTypeExpr(dt) == dt = "BottleMedia"
Identifier(dt) == IF dt = "BottleMedia" THEN "application/vnd.bottle" ELSE ""

NoType == ""

\* design.Root: built-in default responses and user defined responses.
DefaultOK == [Name |-> "OK", Status |-> 200, MediaType |-> "", Type |-> NoType,
              Standard |-> FALSE, Parent |-> ""]
DefaultNotFound == [Name |-> "NotFound", Status |-> 404, MediaType |-> "", Type |-> NoType,
                    Standard |-> FALSE, Parent |-> ""]
UserNotFound == [Name |-> "NotFound", Status |-> 404, MediaType |-> "application/problem+json",
                 Type |-> NoType, Standard |-> FALSE, Parent |-> ""]

RegistryHeap == <<DefaultOK, DefaultNotFound, UserNotFound>>
RegistryRefs == 1..Len(RegistryHeap)

\* design.Root.Response(name): reference of the user defined response, 0 if none.
RootResponse(name) == IF name = "NotFound" THEN 3 ELSE 0

\* design.Root.DefaultResponse(name): reference of the built-in template, 0 if none.
RootDefaultResponse(name) ==
  IF name = "OK" THEN 1 ELSE IF name = "NotFound" THEN 2 ELSE 0

----------------------------------------------------------------------------
\* Arguments of Response: paramsAndDSL ...interface{}
Arg(tag, val) == [tag |-> tag, val |-> val]

\* Configuration blocks (func()) the design passes, by key.
Op(op, status, media) == [op |-> op, status |-> status, media |-> media]

BlockOps(key) ==
  CASE key = "Status201" -> <<Op("Status", 201, "")>>
    [] key = "Status410Media" -> <<Op("Status", 410, ""), Op("Media", 0, "text/plain")>>
    [] key = "Status410Response" -> <<Op("Status", 410, ""), Op("Response", 0, "")>>
    [] key = "Empty" -> <<>>
    [] OTHER -> <<>>

FStatus == Arg("func", "Status201")
FMedia == Arg("func", "Status410Media")
FBad == Arg("func", "Status410Response")
FEmpty == Arg("func", "Empty")
TBottle == Arg("type", "BottleMedia")
TString == Arg("type", "String")
SText == Arg("string", "text/plain")
Other == Arg("other", "42")

ArgLists ==
  { <<>>, <<FStatus>>, <<FMedia>>, <<FBad>>, <<FEmpty>>,
    <<TBottle>>, <<TString>>, <<TBottle, FStatus>>, <<TBottle, FMedia>>, <<TString, FMedia>>,
    <<SText>>, <<TBottle, SText>>, <<SText, FStatus>>, <<TBottle, SText, FStatus>>,
    <<Other>>, <<SText, TBottle>>, <<FStatus, FStatus>> }

----------------------------------------------------------------------------
\* HTTPResponseExpr.Dup: a new expression holding a copy of every field.
Dup(h, ref) == [heap |-> Append(h, h[ref]), ref |-> Len(h) + 1]

\* ActionExpr.Response(name) / ResourceExpr.Response(name): the reference of
\* the scope's response of that name, 0 if none.
ScopeResponse(h, refs, name) ==
  IF \E i \in 1..Len(refs) : h[refs[i]].Name = name
  THEN refs[CHOOSE i \in 1..Len(refs) : h[refs[i]].Name = name]
  ELSE 0

\* Expressions no longer referenced once a definition is abandoned.
Collect(h, before) == SubSeq(h, 1, Len(before))

\* Status sets the status of the current expression, which must be a response.
Status(h, curKind, curRef, status) ==
  IF curKind # "response"
  THEN [heap |-> h, errs |-> <<ErrIncompatible>>]
  ELSE [heap |-> [h EXCEPT ![curRef].Status = status], errs |-> <<>>]

\* Media sets the media type identifier of the current response.
Media(h, curKind, curRef, media) ==
  IF curKind # "response"
  THEN [heap |-> h, errs |-> <<ErrIncompatible>>]
  ELSE [heap |-> [h EXCEPT ![curRef].MediaType = media], errs |-> <<>>]

\* Response called while the current expression is neither an action nor a
\* resource (for instance from inside a response block).
ResponseIncompatible == <<ErrIncompatible>>

\* One DSL function of a block, run with the response curRef as current expression.
RunOp(h, curRef, op) ==
  CASE op.op = "Status" -> Status(h, "response", curRef, op.status)
    [] op.op = "Media" -> Media(h, "response", curRef, op.media)
    [] OTHER -> [heap |-> h, errs |-> ResponseIncompatible]

RECURSIVE RunOps(_, _, _)
RunOps(h, curRef, ops) ==
  IF ops = <<>> THEN [heap |-> h, errs |-> <<>>]
  ELSE LET r == RunOp(h, curRef, Head(ops))
           s == RunOps(r.heap, curRef, Tail(ops))
       IN [heap |-> s.heap, errs |-> r.errs \o s.errs]

\* eval.Execute(dsl, def): runs the whole block with def as current expression;
\* it succeeded when the block reported no error.
Execute(h, key, ref) ==
  LET r == RunOps(h, ref, BlockOps(key))
  IN [ok |-> r.errs = <<>>, heap |-> r.heap, errs |-> r.errs]

\* executeResponseDSL, argument parsing: trailing func, leading DataType, the
\* rest must be strings.
ParseParamsAndDSL(args) ==
  LET n == Len(args)
      hasDsl == n > 0 /\ args[n].tag = "func"
      rest1 == IF hasDsl THEN SubSeq(args, 1, n - 1) ELSE args
      hasDt == Len(rest1) > 0 /\ rest1[1].tag = "type"
      rest2 == IF hasDt THEN Tail(rest1) ELSE rest1
  IN [hasDsl |-> hasDsl,
      dsl |-> IF hasDsl THEN args[n].val ELSE "",
      hasDt |-> hasDt,
      dt |-> IF hasDt THEN rest1[1].val ELSE NoType,
      params |-> rest2,
      ok |-> \A i \in 1..Len(rest2) : rest2[i].tag = "string"]

\* Variant: template parameters are accepted and ignored.
RejectParamsNever(params) == FALSE

\* executeResponseDSL: template parameters are not supported.
RejectParams(params) == Len(params) > 0

\* Variant: the registry entry itself is used instead of a duplicate.
BaseExprShared(h, name) ==
  IF RootResponse(name) # 0 THEN [heap |-> h, ref |-> RootResponse(name)]
  ELSE IF RootDefaultResponse(name) # 0
  THEN [heap |-> [h EXCEPT ![RootDefaultResponse(name)].Standard = TRUE],
        ref |-> RootDefaultResponse(name)]
  ELSE [heap |-> Append(h, [Name |-> name, Status |-> 0, MediaType |-> "",
                            Type |-> NoType, Standard |-> FALSE, Parent |-> ""]),
        ref |-> Len(h) + 1]

\* Variant: every duplicate of a registry entry is marked standard.
BaseExprAllStandard(h, name) ==
  IF RootResponse(name) # 0
  THEN LET d == Dup(h, RootResponse(name))
       IN [heap |-> [d.heap EXCEPT ![d.ref].Standard = TRUE], ref |-> d.ref]
  ELSE IF RootDefaultResponse(name) # 0
  THEN LET d == Dup(h, RootDefaultResponse(name))
       IN [heap |-> [d.heap EXCEPT ![d.ref].Standard = TRUE], ref |-> d.ref]
  ELSE [heap |-> Append(h, [Name |-> name, Status |-> 0, MediaType |-> "",
                            Type |-> NoType, Standard |-> FALSE, Parent |-> ""]),
        ref |-> Len(h) + 1]

\* executeResponseDSL, base expression: user defined response, else built-in
\* default response (marked standard), else a fresh expression.
BaseExpr(h, name) ==
  IF RootResponse(name) # 0 THEN Dup(h, RootResponse(name))
  ELSE IF RootDefaultResponse(name) # 0
  THEN LET d == Dup(h, RootDefaultResponse(name))
       IN [heap |-> [d.heap EXCEPT ![d.ref].Standard = TRUE], ref |-> d.ref]
  ELSE [heap |-> Append(h, [Name |-> name, Status |-> 0, MediaType |-> "",
                            Type |-> NoType, Standard |-> FALSE, Parent |-> ""]),
        ref |-> Len(h) + 1]

\* Variant: the identifier of the media type fills only an unset media type.
ApplyDataTypeKeepMedia(h, ref, dt) ==
  LET h1 == IF IsMediaTypeExpr(dt) /\ h[ref].MediaType = ""
            THEN [h EXCEPT ![ref].MediaType = Identifier(dt)] ELSE h
  IN [h1 EXCEPT ![ref].Type = dt, ![ref].Standard = FALSE]

\* executeResponseDSL, body type token.
ApplyDataType(h, ref, dt) ==
  LET h1 == IF IsMediaTypeExpr(dt) THEN [h EXCEPT ![ref].MediaType = Identifier(dt)] ELSE h
  IN [h1 EXCEPT ![ref].Type = dt, ![ref].Standard = FALSE]

\* Variant: the result of eval.Execute is ignored.
ApplyDSLIgnoreFailure(h, ref, key) ==
  LET x == Execute(h, key, ref)
  IN [ok |-> TRUE, heap |-> [x.heap EXCEPT ![ref].Standard = FALSE], errs |-> <<>>]

\* executeResponseDSL, configuration block.
ApplyDSL(h, ref, key) ==
  LET x == Execute(h, key, ref)
  IN IF ~x.ok THEN [ok |-> FALSE, heap |-> x.heap, errs |-> x.errs]
     ELSE [ok |-> TRUE, heap |-> [x.heap EXCEPT ![ref].Standard = FALSE], errs |-> <<>>]

executeResponseDSL(h, name, args) ==
  LET p == ParseParamsAndDSL(args)
      none == [ok |-> FALSE, heap |-> h, ref |-> 0, errs |-> <<>>]
  IN IF ~p.ok THEN [none EXCEPT !.errs = <<ErrInvalidParam>>]
     ELSE IF RejectParams(p.params) THEN [none EXCEPT !.errs = <<ErrNoTemplate>>]
     ELSE LET b == BaseExpr(h, name)
              x == IF p.hasDsl THEN ApplyDSL(b.heap, b.ref, p.dsl)
                   ELSE [ok |-> TRUE, heap |-> b.heap, errs |-> <<>>]
          IN IF ~x.ok
             THEN [ok |-> FALSE, heap |-> Collect(x.heap, h), ref |-> 0, errs |-> x.errs]
             ELSE [ok |-> TRUE,
                   heap |-> IF p.hasDt THEN ApplyDataType(x.heap, b.ref, p.dt) ELSE x.heap,
                   ref |-> b.ref, errs |-> <<>>]

\* Variant: the scope is not consulted.
IsDefinedTwiceNever(h, refs, name) == FALSE

\* Response: does the scope already hold a response of that name?
IsDefinedTwice(h, refs, name) == ScopeResponse(h, refs, name) # 0

\* Variant: the default is inherited whatever the status.
DefaultFillAnyStatus(r, mediaType) ==
  IF r.MediaType = "" THEN [r EXCEPT !.MediaType = mediaType] ELSE r

\* Response: a response with status 200 and no media type inherits the default.
DefaultFill(r, mediaType) ==
  IF r.Status = 200 /\ r.MediaType = "" THEN [r EXCEPT !.MediaType = mediaType] ELSE r

\* Response, one of the two scope cases: result on heap, scope and diagnostics.
DefineInScope(h, resps, def, name, args) ==
  IF IsDefinedTwice(h, resps[def], name)
  THEN [heap |-> h, responses |-> resps, errs |-> <<ErrDefinedTwice>>]
  ELSE LET e == executeResponseDSL(h, name, args)
       IN IF ~e.ok THEN [heap |-> e.heap, responses |-> resps, errs |-> e.errs]
          ELSE [heap |-> [e.heap EXCEPT ![e.ref] =
                            [DefaultFill(e.heap[e.ref], ScopeDefaultMediaType(def))
                               EXCEPT !.Parent = def]],
                responses |-> [resps EXCEPT ![def] = Append(@, e.ref)],
                errs |-> <<>>]

Call(op, def, name, args) == [op |-> op, def |-> def, name |-> name, args |-> args]

PubIdle ==
  /\ schema = "none" /\ stack = <<>> /\ out = <<>> /\ pcalls = {} /\ pc = "idle"

Init ==
  /\ heap = RegistryHeap
  /\ responses = [s \in Scopes |-> <<>>]
  /\ errors = <<>>
  /\ ncalls = 0
  /\ last = Call("none", "", "", <<>>)
  /\ PubIdle

Evaluate(r, call) ==
  /\ heap' = r.heap
  /\ responses' = r.responses
  /\ errors' = errors \o r.errs
  /\ ncalls' = ncalls + 1
  /\ last' = call
  /\ UNCHANGED pubVars

\* Response(name, paramsAndDSL...) with an action as current expression.
ResponseInAction(name, args) ==
  /\ ncalls < MaxCalls
  /\ Evaluate(DefineInScope(heap, responses, "action", name, args),
           Call("Response", "action", name, args))

\* Response(name, paramsAndDSL...) with a resource as current expression.
ResponseInResource(name, args) ==
  /\ ncalls < MaxCalls
  /\ Evaluate(DefineInScope(heap, responses, "resource", name, args),
           Call("Response", "resource", name, args))

\* Response(name, paramsAndDSL...) with any other current expression.
ResponseElsewhere(name, args) ==
  /\ ncalls < MaxCalls
  /\ Evaluate([heap |-> heap, responses |-> responses, errs |-> ResponseIncompatible],
           Call("Response", "api", name, args))

\* Status(status) called directly in a scope, outside of a response block.
StatusOutside(def, status) ==
  LET r == Status(heap, def, 0, status)
  IN /\ ncalls < MaxCalls
     /\ Evaluate([heap |-> r.heap, responses |-> responses, errs |-> r.errs],
              Call("Status", def, "", <<>>))

Next ==
  \/ \E name \in Names, args \in ArgLists : ResponseInAction(name, args)
  \/ \E name \in Names, args \in ArgLists : ResponseInResource(name, args)
  \/ \E name \in Names, args \in ArgLists : ResponseElsewhere(name, args)
  \/ \E def \in Contexts, status \in {201} : StatusOutside(def, status)

Spec == Init /\ [][Next]_vars

----------------------------------------------------------------------------
\* The publicizer.  A data type is named by a key of the table TypeDef; user
\* types and media types are the named types, every other entry is anonymous.

Field(name, type, required) == [name |-> name, type |-> type, required |-> required]

TypeRec(kind, under, fields, key, elem) ==
  [kind |-> kind, under |-> under, fields |-> fields, key |-> key, elem |-> elem]

Primitive == TypeRec("primitive", "", <<>>, "", "")
Object(fields) == TypeRec("object", "", fields, "", "")
Array(elem) == TypeRec("array", "", <<>>, "", elem)
Map(key, elem) == TypeRec("map", "", <<>>, key, elem)
UserTypeExpr(under) == TypeRec("user", under, <<>>, "", "")
MediaTypeExpr(under) == TypeRec("media", under, <<>>, "", "")

TypeDef(t) ==
  CASE t = "String" -> Primitive
    [] t = "Int" -> Primitive
    [] t = "AddressObject" -> Object(<<Field("street", "String", TRUE)>>)
    [] t = "Address" -> UserTypeExpr("AddressObject")
    [] t = "BottleObject" -> Object(<<Field("name", "String", TRUE),
                                      Field("vintage", "Int", FALSE)>>)
    [] t = "Bottle" -> MediaTypeExpr("BottleObject")
    [] t = "TreeObject" -> Object(<<Field("value", "String", TRUE),
                                    Field("child", "Tree", FALSE)>>)
    [] t = "Tree" -> UserTypeExpr("TreeObject")
    [] t = "Inline" -> Object(<<Field("nick", "String", FALSE),
                                Field("addr", "Address", TRUE)>>)
    [] t = "Point" -> Object(<<Field("x", "Int", TRUE)>>)
    [] t = "Outer" -> Object(<<Field("inner", "Point", TRUE),
                               Field("tags", "Tags", FALSE),
                               Field("book", "Book", TRUE)>>)
    [] t = "Tags" -> Array("String")
    [] t = "TagList" -> UserTypeExpr("Tags")
    [] t = "Addrs" -> Array("Address")
    [] t = "Points" -> Array("Point")
    [] t = "Labels" -> Map("String", "String")
    [] t = "Book" -> Map("String", "Address")
    [] t = "Link" -> Object(<<Field("next", "Chain", FALSE)>>)
    [] t = "ChainArray" -> Array("Link")
    [] t = "Chain" -> UserTypeExpr("ChainArray")
    [] t = "Slot" -> Object(<<Field("more", "Index", FALSE)>>)
    [] t = "IndexMap" -> Map("String", "Slot")
    [] t = "Index" -> UserTypeExpr("IndexMap")
    [] OTHER -> TypeRec("", "", <<>>, "", "")

\* The attributes the generator is run on.
Roots == {"String", "Address", "Bottle", "Tree", "Inline", "Point", "Outer", "Tags",
          "TagList", "Addrs", "Points", "Labels", "Book", "Chain", "Index"}

IsNamed(t) == TypeDef(t).kind \in {"user", "media"}

\* design.IsPrimitive, IsObject, IsArray, IsMap, AsObject, AsArray, AsMap:
\* a named type is classified by the type it wraps.
Unwrap(t) == IF IsNamed(t) THEN TypeDef(t).under ELSE t
IsPrimitive(t) == TypeDef(Unwrap(t)).kind = "primitive"
IsObject(t) == TypeDef(Unwrap(t)).kind = "object"
IsArray(t) == TypeDef(Unwrap(t)).kind = "array"
IsMap(t) == TypeDef(Unwrap(t)).kind = "map"
AsObject(t) == TypeDef(Unwrap(t)).fields
AsArray(t) == TypeDef(Unwrap(t))
AsMap(t) == TypeDef(Unwrap(t))

\* AttributeExpr.IsPrimitivePointer(name): the field is held through a pointer
\* in the public struct: a primitive field that is not required.
IsPrimitivePointer(f) == IsPrimitive(f.type) /\ ~f.required

\* Goify(name, true): the exported identifier of a field.
Goify(n) ==
  CASE n = "street" -> "Street" [] n = "name" -> "Name" [] n = "vintage" -> "Vintage"
    [] n = "value" -> "Value" [] n = "child" -> "Child" [] n = "nick" -> "Nick"
    [] n = "addr" -> "Addr" [] n = "x" -> "X" [] n = "inner" -> "Inner"
    [] n = "tags" -> "Tags" [] n = "book" -> "Book" [] n = "next" -> "Next"
    [] n = "more" -> "More" [] OTHER -> n

\* A pending call of the generator, or a line of the text it produced.  kind is
\* the function called ("Publicizer", "RecursivePublicizer") or the statement
\* emitted; from is the depth of the caller.
Item(kind, att, source, target, deref, depth, init, from) ==
  [kind |-> kind, att |-> att, source |-> source, target |-> target,
   deref |-> deref, depth |-> depth, init |-> init, from |-> from]

Line(kind, c) == Item(kind, c.att, c.source, c.target, c.deref, c.depth, c.init, c.from)

IsCall(i) == i.kind \in {"Publicizer", "RecursivePublicizer"}

\* simplePublicizeTmpl: target [:]= [*]source
simplePublicize(c) == <<Line("assign", c)>>

\* recursivePublicizeTmpl: target [:]= source.Publicize()
recursivePublicize(c) == <<Line("delegate", c)>>

\* objectPublicizeTmpl: target = &T{} followed by recursivePublicizer.
objectPublicize(c) ==
  << Line("alloc", c),
     Item("RecursivePublicizer", c.att, c.source, c.target, FALSE, c.depth, FALSE, c.depth) >>

\* arrayPublicizeTmpl: make(T, len(source)), then a range loop over source
\* publicizing each element.
arrayPublicize(c) ==
  LET i == "i" \o ToString(c.depth)
      elem == "elem" \o ToString(c.depth)
  IN << Line("make", c),
        Item("for", c.att, c.source, i \o ", " \o elem, FALSE, c.depth, FALSE, c.from),
        Item("Publicizer", AsArray(c.att).elem, elem, c.target \o "[" \o i \o "]",
             c.deref, c.depth + 1, FALSE, c.depth),
        Item("end", c.att, "", "", FALSE, c.depth, FALSE, c.from) >>

\* hashPublicizeTmpl: make(T, len(source)), then a range loop over source
\* publicizing key and value and storing them.
hashPublicize(c) ==
  LET k == "k" \o ToString(c.depth)
      v == "v" \o ToString(c.depth)
  IN << Line("make", c),
        Item("for", c.att, c.source, k \o ", " \o v, FALSE, c.depth, FALSE, c.from),
        Item("Publicizer", AsMap(c.att).key, k, "pub" \o k, c.deref, c.depth + 1, TRUE, c.depth),
        Item("Publicizer", AsMap(c.att).elem, v, "pub" \o v, c.deref, c.depth + 1, TRUE, c.depth),
        Item("assign", c.att, "pub" \o v, c.target \o "[pub" \o k \o "]", FALSE,
             c.depth + 1, FALSE, c.from),
        Item("end", c.att, "", "", FALSE, c.depth, FALSE, c.from) >>

\* Variant: every array goes through the array template.
PublicizerTemplateLoopAlways(t) ==
  CASE IsPrimitive(t) -> "simple"
    [] IsObject(t) -> IF IsNamed(t) THEN "recursive" ELSE "object"
    [] IsArray(t) -> "array"
    [] IsMap(t) -> IF IsObject(AsMap(t).key) \/ IsObject(AsMap(t).elem) THEN "hash" ELSE "simple"
    [] OTHER -> ""

\* Publicizer, the switch on the type of the attribute.
PublicizerTemplate(t) ==
  CASE IsPrimitive(t) -> "simple"
    [] IsObject(t) -> IF IsNamed(t) THEN "recursive" ELSE "object"
    [] IsArray(t) -> IF IsObject(AsArray(t).elem) THEN "array" ELSE "simple"
    [] IsMap(t) -> IF IsObject(AsMap(t).key) \/ IsObject(AsMap(t).elem) THEN "hash" ELSE "simple"
    [] OTHER -> ""

\* Publicizer: the text of the template chosen, nested calls still pending.
Publicizer(c) ==
  LET tmpl == PublicizerTemplate(c.att)
  IN CASE tmpl = "simple" -> simplePublicize(c)
       [] tmpl = "recursive" -> recursivePublicize(c)
       [] tmpl = "object" -> objectPublicize(c)
       [] tmpl = "array" -> arrayPublicize(c)
       [] tmpl = "hash" -> hashPublicize(c)
       [] OTHER -> <<>>

\* Variant: only the publication of an optional field is wrapped.
PublicationGuardOptional(c, f) ==
  LET src == c.source \o "." \o Goify(f.name)
      tgt == c.target \o "." \o Goify(f.name)
      call == Item("Publicizer", f.type, src, tgt,
                   IsPrimitive(f.type) /\ ~IsPrimitivePointer(f), c.depth + 1, FALSE, c.depth)
  IN IF f.required THEN <<call>>
     ELSE << Item("if", f.type, src, "", FALSE, c.depth, FALSE, c.from),
             call,
             Item("endif", f.type, src, "", FALSE, c.depth, FALSE, c.from) >>

\* RecursivePublicizer, one field of the object: the publication of the field
\* wrapped in "if source.Field != nil { ... }".
Publication(c, f) ==
  LET src == c.source \o "." \o Goify(f.name)
      tgt == c.target \o "." \o Goify(f.name)
  IN << Item("if", f.type, src, "", FALSE, c.depth, FALSE, c.from),
        Item("Publicizer", f.type, src, tgt,
             IsPrimitive(f.type) /\ ~IsPrimitivePointer(f), c.depth + 1, FALSE, c.depth),
        Item("endif", f.type, src, "", FALSE, c.depth, FALSE, c.from) >>

RECURSIVE Publications(_, _)
Publications(c, fields) ==
  IF fields = <<>> THEN <<>>
  ELSE Publication(c, Head(fields)) \o Publications(c, Tail(fields))

\* RecursivePublicizer: the publications of the fields of an object, in order.
RecursivePublicizer(c) ==
  IF IsObject(c.att) THEN Publications(c, AsObject(c.att)) ELSE <<>>

InitPub ==
  /\ heap = RegistryHeap
  /\ responses = [s \in Scopes |-> <<>>]
  /\ errors = <<>>
  /\ ncalls = 0
  /\ last = Call("none", "", "", <<>>)
  /\ PubIdle

Begin(call) ==
  /\ schema' = call.att
  /\ stack' = <<call>>
  /\ out' = <<>>
  /\ pcalls' = {}
  /\ pc' = "running"
  /\ UNCHANGED dslVars

\* Publicizer(att, "source", "target", dereference, 0, init) is called.
StartPublicizer(t, deref, init) ==
  /\ pc = "idle"
  /\ Begin(Item("Publicizer", t, "source", "target", deref, 0, init, -1))

\* RecursivePublicizer(att, "source", "target", 0) is called.
StartRecursivePublicizer(t) ==
  /\ pc = "idle"
  /\ Begin(Item("RecursivePublicizer", t, "source", "target", FALSE, 0, FALSE, -1))

Running == pc = "running" /\ stack # <<>>

\* The pending call of Publicizer runs up to its nested calls.
RunPublicizer ==
  /\ Running /\ Head(stack).kind = "Publicizer" /\ Head(stack).depth < MaxDepth
  /\ stack' = Publicizer(Head(stack)) \o Tail(stack)
  /\ pcalls' = pcalls \cup {Head(stack)}
  /\ UNCHANGED <<schema, out, pc>> /\ UNCHANGED dslVars

\* The pending call of RecursivePublicizer runs up to its nested calls.
RunRecursivePublicizer ==
  /\ Running /\ Head(stack).kind = "RecursivePublicizer" /\ Head(stack).depth < MaxDepth
  /\ stack' = RecursivePublicizer(Head(stack)) \o Tail(stack)
  /\ pcalls' = pcalls \cup {Head(stack)}
  /\ UNCHANGED <<schema, out, pc>> /\ UNCHANGED dslVars

\* The next line of the template text is written.
Emit ==
  /\ Running /\ ~IsCall(Head(stack))
  /\ out' = Append(out, Head(stack))
  /\ stack' = Tail(stack)
  /\ UNCHANGED <<schema, pcalls, pc>> /\ UNCHANGED dslVars

\* The outermost call returns the text.
Return ==
  /\ pc = "running" /\ stack = <<>>
  /\ pc' = "done"
  /\ UNCHANGED <<schema, stack, out, pcalls>> /\ UNCHANGED dslVars

\* The nesting of the calls went past the depth followed: the run is left.
TooDeep ==
  /\ Running /\ IsCall(Head(stack)) /\ Head(stack).depth >= MaxDepth
  /\ pc' = "deep"
  /\ UNCHANGED <<schema, stack, out, pcalls>> /\ UNCHANGED dslVars

NextPub ==
  \/ \E t \in Roots, deref \in BOOLEAN, init \in BOOLEAN : StartPublicizer(t, deref, init)
  \/ \E t \in Roots : StartRecursivePublicizer(t)
  \/ RunPublicizer
  \/ RunRecursivePublicizer
  \/ Emit
  \/ Return
  \/ TooDeep

SpecPub == InitPub /\ [][NextPub]_vars

----------------------------------------------------------------------------
\* Vocabulary of the properties of the Response DSL.  These definitions read
\* the arguments and the state directly; none goes through the operators above.

HoldsName(h, refs, name) == \E i \in 1..Len(refs) : h[refs[i]].Name = name

HasBlock(args) == Len(args) > 0 /\ args[Len(args)].tag = "func"
BlockKey(args) == args[Len(args)].val
Positional(args) == IF HasBlock(args) THEN SubSeq(args, 1, Len(args) - 1) ELSE args
HasBodyType(args) == Len(Positional(args)) > 0 /\ Positional(args)[1].tag = "type"
BodyType(args) == Positional(args)[1].val
Residual(args) == IF HasBodyType(args) THEN Tail(Positional(args)) ELSE Positional(args)
HasPositionalString(args) == \E i \in 1..Len(args) : args[i].tag = "string"
BlockFails(args) ==
  HasBlock(args) /\ \E i \in 1..Len(BlockOps(BlockKey(args))) :
                       BlockOps(BlockKey(args))[i].op \notin {"Status", "Media"}
BlockSetsMedia(args) ==
  HasBlock(args) /\ \E i \in 1..Len(BlockOps(BlockKey(args))) :
                       BlockOps(BlockKey(args))[i].op = "Media"

\* The step evaluates one DSL call of the given kind.
Step(op) == ncalls' = ncalls + 1 /\ last'.op = op

\* The step is a Response call in an owning scope.
ScopedResponse == Step("Response") /\ last'.def \in Scopes

\* The call evaluated by the step is one the DSL must reject.
Failing ==
  \/ last'.def \notin Scopes
  \/ HoldsName(heap, responses[last'.def], last'.name)
  \/ Residual(last'.args) # <<>>
  \/ BlockFails(last'.args)

\* The step attached exactly one new response, named as asked, to the scope of
\* the call and touched no other scope nor any older expression.
AttachedNew ==
  /\ Len(heap') = Len(heap) + 1
  /\ \A ref \in 1..Len(heap) : heap'[ref] = heap[ref]
  /\ responses' = [responses EXCEPT ![last'.def] = Append(@, Len(heap'))]
  /\ heap'[Len(heap')].Name = last'.name
  /\ heap'[Len(heap')].Parent = last'.def

New == heap'[Len(heap')]

NothingAttached == responses' = responses /\ heap' = heap

\* C1: a Response call for a name its scope already holds reports exactly one
\* "defined twice" error and leaves the scope's responses as they were,
\* whatever the other arguments.
C1_DuplicateDefinition ==
  [][ (ScopedResponse /\ HoldsName(heap, responses[last'.def], last'.name))
        => (errors' = Append(errors, ErrDefinedTwice) /\ NothingAttached) ]_vars

C1_Witness ==
  /\ last.op = "Response" /\ last.def \in Scopes
  /\ last.args # <<>>
  /\ ncalls = 2 /\ errors = <<ErrDefinedTwice>>
  /\ Len(responses[last.def]) = 1
  /\ heap[responses[last.def][1]].Name = last.name

\* C2: a Response call that fails (duplicate name, residual or non-string
\* positional parameter, failing block, context that is no scope) attaches
\* nothing and reports at least one error; any other call attaches its
\* response, also after earlier failures.
C2_MutatesOnlyOnSuccess ==
  [][ Step("Response")
        => IF Failing THEN NothingAttached /\ Len(errors') > Len(errors)
           ELSE AttachedNew /\ errors' = errors ]_vars

C2_Witness ==
  /\ last.op = "Response" /\ last.def \in Scopes
  /\ Residual(last.args) = <<>> /\ ~BlockFails(last.args)
  /\ ncalls = 2 /\ errors = <<ErrNoTemplate>>
  /\ Len(responses[last.def]) = 1
  /\ heap[responses[last.def][1]].Name = last.name

OKWithStatus201 ==
  /\ Step("Response") /\ last'.def = "action" /\ last'.name = "OK"
  /\ last'.args = <<FStatus>>
  /\ ~HoldsName(heap, responses["action"], "OK")

\* C4 as stated: the response is attached with status 201 and the media type
\* of the owning resource.
C4_Original ==
  [][ OKWithStatus201
        => AttachedNew /\ New.Status = 201 /\ New.MediaType = ResourceMediaType ]_vars

\* C4 amended: the response is attached with status 201 and keeps the media
\* type of the OK template it duplicates (none); the default media type of the
\* resource is not inherited, since the final status is not 200.
C4_Status201KeepsTemplateMedia ==
  [][ OKWithStatus201
        => /\ AttachedNew /\ New.Status = 201
           /\ New.MediaType = RegistryHeap[RootDefaultResponse("OK")].MediaType
           /\ New.MediaType # ResourceMediaType ]_vars

C4_Witness ==
  /\ last = Call("Response", "action", "OK", <<FStatus>>)
  /\ errors = <<>> /\ ncalls = 1
  /\ Len(responses["action"]) = 1
  /\ heap[responses["action"][1]].Status = 201

\* A Response call that succeeds and carries a body-type token.
WithBodyType ==
  ScopedResponse /\ ~Failing /\ HasBodyType(last'.args)

\* C5 as stated: Response("OK", M) yields the identifier of M, body type M and
\* status 200; with any body-type token the body type is the token, a media
\* type overwrites the media type, and the default of the scope is not used.
C5_Original ==
  [][ WithBodyType
        => /\ AttachedNew
           /\ New.Type = BodyType(last'.args)
           /\ IsMediaTypeExpr(BodyType(last'.args))
                => New.MediaType = Identifier(BodyType(last'.args))
           /\ (last'.name = "OK" /\ last'.args = <<TBottle>>) => New.Status = 200
           /\ New.MediaType # ScopeDefaultMediaType(last'.def) ]_vars

\* C5 amended: as stated, except that the default of the scope is left unused
\* only when the token is a media type; with a token that is no media type a
\* response of status 200 whose media type is still unset inherits it.
C5_BodyTypeToken ==
  [][ WithBodyType
        => /\ AttachedNew
           /\ New.Type = BodyType(last'.args)
           /\ IsMediaTypeExpr(BodyType(last'.args))
                => New.MediaType = Identifier(BodyType(last'.args))
           /\ (last'.name = "OK" /\ last'.args = <<TBottle>>) => New.Status = 200
           /\ New.MediaType = ScopeDefaultMediaType(last'.def)
                <=> /\ ~IsMediaTypeExpr(BodyType(last'.args))
                    /\ New.Status = 200
                    /\ ~BlockSetsMedia(last'.args) ]_vars

C5_Witness ==
  /\ last.op = "Response" /\ last.def \in Scopes /\ last.name = "OK"
  /\ last.args = <<TBottle, FMedia>>
  /\ Len(responses[last.def]) = 1 /\ ncalls = 1
  /\ heap[responses[last.def][1]].MediaType = "application/vnd.bottle"
  /\ heap[responses[last.def][1]].Type = "BottleMedia"

\* C6: the user defined responses and the built-in default responses of the
\* registry keep every field, whatever was defined, redefined or abandoned.
C6_RegistryIsolation ==
  /\ Len(heap) >= Len(RegistryHeap)
  /\ \A ref \in RegistryRefs : heap[ref] = RegistryHeap[ref]

C6_Witness ==
  /\ \E s \in Scopes : \E i \in 1..Len(responses[s]) :
        /\ heap[responses[s][i]].Name = "NotFound"
        /\ heap[responses[s][i]].Status = 410
  /\ last.args = <<FBad>> /\ last.def \in Scopes /\ last.name = "OK"

\* C10: an attached response is standard exactly when it duplicates a built-in
\* default response (no user defined response of that name) and the call
\* carried neither a block nor a body-type token; later calls leave it alone.
C10_StandardIff ==
  [][ (ScopedResponse /\ ~Failing)
        => /\ AttachedNew
           /\ New.Standard <=> /\ RootResponse(last'.name) = 0
                               /\ RootDefaultResponse(last'.name) # 0
                               /\ ~HasBlock(last'.args)
                               /\ ~HasBodyType(last'.args) ]_vars

C10_Witness ==
  /\ ncalls = 2 /\ errors = <<>>
  /\ \E s \in Scopes : Len(responses[s]) = 2
        /\ heap[responses[s][1]].Standard
        /\ ~heap[responses[s][2]].Standard
        /\ heap[responses[s][2]].Name = "NotFound"
  /\ last.args = <<>>

----------------------------------------------------------------------------
\* Vocabulary of the properties of the publicizer.

\* The run started by a call of the given function on the root attribute has
\* returned its text.
Returned(fn) ==
  /\ pc = "done"
  /\ \E c \in pcalls : c.kind = fn /\ c.depth = 0 /\ c.from = -1

\* The root attribute is an object whose fields were walked from "source".
FieldsWalked ==
  /\ pc = "done" /\ IsObject(schema)
  /\ \E c \in pcalls : c.kind = "RecursivePublicizer" /\ c.depth = 0

SourceOf(f) == "source." \o Goify(f.name)
TargetOf(f) == "target." \o Goify(f.name)

\* Index of the first line of the publication of field f, 0 if there is none.
PublishedAt(f) ==
  IF \E i \in 1..Len(out) : out[i].kind \notin {"if", "endif"}
                              /\ out[i].source = SourceOf(f) /\ out[i].target = TargetOf(f)
  THEN CHOOSE i \in 1..Len(out) : out[i].kind \notin {"if", "endif"}
                                    /\ out[i].source = SourceOf(f) /\ out[i].target = TargetOf(f)
  ELSE 0

\* The publication of field f sits inside "if source.F != nil { ... }".
Guarded(f) ==
  /\ PublishedAt(f) > 1
  /\ out[PublishedAt(f) - 1].kind = "if"
  /\ out[PublishedAt(f) - 1].source = SourceOf(f)
  /\ \E j \in (PublishedAt(f) + 1)..Len(out) :
        out[j].kind = "endif" /\ out[j].source = SourceOf(f)

\* The publication of field f is emitted with no guard before it.
Unguarded(f) ==
  /\ PublishedAt(f) > 0
  /\ PublishedAt(f) > 1 => out[PublishedAt(f) - 1].kind # "if"

FieldsOf(t) == {AsObject(t)[i] : i \in 1..Len(AsObject(t))}

MakeThenLoop ==
  /\ Len(out) >= 3
  /\ out[1].kind = "make" /\ out[1].target = "target" /\ out[1].source = "source"
  /\ out[2].kind = "for" /\ out[2].source = "source"
  /\ out[Len(out)].kind = "end"

\* The text is the single assignment of source to target.
DirectCopy ==
  /\ Len(out) = 1
  /\ out[1].kind = "assign" /\ out[1].target = "target" /\ out[1].source = "source"
  /\ \E c \in pcalls : c.depth = 0 /\ c.deref = out[1].deref /\ c.init = out[1].init

ElemOf(t) == TypeDef(Unwrap(t)).elem

\* C8 as stated: an array of primitive elements yields make(..., len(source))
\* followed by a loop over the source.
C8_Original ==
  (Returned("Publicizer") /\ IsArray(schema) /\ IsPrimitive(ElemOf(schema)))
    => MakeThenLoop

\* C8 amended: an array of primitive elements yields the single direct
\* assignment of the source, with no allocation and no loop; an array whose
\* elements are objects yields make(..., len(source)) followed by a loop over
\* the source.
C8_ArrayPublication ==
  (Returned("Publicizer") /\ IsArray(schema))
    => IF IsObject(ElemOf(schema)) THEN MakeThenLoop ELSE DirectCopy

C8_Witness ==
  /\ Returned("Publicizer") /\ schema = "Tags"
  /\ Len(out) = 1 /\ out[1].kind = "assign"

\* C9 as stated: the generator returns on every schema; every nested call of
\* Publicizer runs one level deeper than its caller; a named type is never
\* published again inside its own publication, be it an object, an array or a
\* map, since the delegating call is emitted in its place.
C9_Original ==
  /\ pc # "deep"
  /\ \A c \in pcalls : (c.kind = "Publicizer" /\ c.from >= 0) => c.depth = c.from + 1
  /\ \A c, d \in pcalls :
        ~ (/\ c.kind = "Publicizer" /\ d.kind = "Publicizer"
           /\ IsNamed(c.att) /\ d.att = c.att /\ c.depth < d.depth)

====
